---- MODULE Spec2Model ----
(***************************************************************************)
(* Lineage graph of docworkspace: Node (node.py) and Workspace             *)
(* (workspace.py).  A node object is identified with its id; a workspace   *)
(* object with its index.  Strings built with f-strings are modelled as    *)
(* sequences of tokens, concatenation as \o.                               *)
(***************************************************************************)
EXTENDS Integers, Sequences, FiniteSets, TLC

\* ---------------------------------------------------------------- bounds
MaxNodes == 3
MaxWs == 2
MaxParents == 1
MaxEngineNodes == 3
MaxEngineWs == 1
MaxPersistNodes == 3
MaxPersistWs == 1
MaxLifeNodes == 2
MaxLifeWs == 1
MaxProxies == 1
MaxJoinNodes == 3
MaxJoinWs == 2
MaxQueryNodes == 3
MaxQueryWs == 2
MaxTravNodes == 3
MaxUsers == 2
MaxManagerWs == 2

\* ------------------------------------------------------------- constants
None == 0
NoName == <<>>

SupportedDataTypes == {"DataFrame", "LazyFrame", "DocDataFrame", "DocLazyFrame"}

\* data a caller may hand to Node(...): a table of one of the four kinds, or
\* anything else ("str" stands for every unsupported object)
DataArgs == SupportedDataTypes \cup {"str"}

\* names a caller may pass to Node(...): none, or an explicit label
NameArgs == {NoName}

\* what the table engine does when it is asked to evaluate: succeed, or raise
\* an exception; "TypeError" stands for the two classes the handlers of
\* collect() and materialize() catch (AttributeError, TypeError),
\* "ComputeError" for every other class
EngineOutcomes == {"ok", "TypeError", "ComputeError"}

VARIABLES data, name, operation, parents, children, workspace, nodes, ret,
          doc, loaded, proxies, trav,
          user_sessions, user_current, workspace_files

heapVars == <<data, name, operation, parents, children, workspace, nodes>>
fileVars == <<doc, loaded>>
managerVars == <<user_sessions, user_current, workspace_files>>
vars == <<data, name, operation, parents, children, workspace, nodes, ret,
          doc, loaded, proxies, trav, user_sessions, user_current,
          workspace_files>>

\* The object graph as one value, so that methods can be composed.
\*   data[n], name[n], operation[n], parents[n], children[n], workspace[n]
\*      are the fields of node n (n in 1..Len(data));
\*   nodes[w] is the registry dict of workspace w, as the list of its keys
\*      in insertion order.
Heap == [data |-> data, name |-> name, operation |-> operation,
         parents |-> parents, children |-> children,
         workspace |-> workspace, nodes |-> nodes]

SetHeap(h) ==
    /\ data' = h.data
    /\ name' = h.name
    /\ operation' = h.operation
    /\ parents' = h.parents
    /\ children' = h.children
    /\ workspace' = h.workspace
    /\ nodes' = h.nodes

Allocated(h) == 1..Len(h.data)
Workspaces(h) == 1..Len(h.nodes)

\* ------------------------------------------------------ python primitives
\* x in list
Contains(seq, x) == \E i \in 1..Len(seq) : seq[i] = x

\* del dict[key]: the remaining keys keep their order
DictDel(seq, x) == SelectSeq(seq, LAMBDA y : y # x)

\* list.remove(x): removes the first occurrence only
ListRemove(seq, x) ==
    IF ~Contains(seq, x) THEN seq
    ELSE LET i == CHOOSE j \in 1..Len(seq) :
                    seq[j] = x /\ \A k \in 1..(j - 1) : seq[k] # x
         IN SubSeq(seq, 1, i - 1) \o SubSeq(seq, i + 1, Len(seq))

Range(seq) == {seq[i] : i \in 1..Len(seq)}

\* ------------------------------------------------------------ table engine
is_lazy(d) == d \in {"LazyFrame", "DocLazyFrame"}

IsDoc(d) == d \in {"DocDataFrame", "DocLazyFrame"}

\* LazyFrame.collect() and DocLazyFrame.collect()
Collected(d) ==
    CASE d = "LazyFrame" -> "DataFrame"
      [] d = "DocLazyFrame" -> "DocDataFrame"
      [] OTHER -> d

\* ------------------------------------------------------------- Workspace
\* add_node without "del node.workspace.nodes[node.id]"
Detach_Never(h, w, n) == h

\* add_node, lines 117-124 and 134-137: remove from the previous workspace
Detach(h, w, n) ==
    LET pw == h.workspace[n] IN
    IF pw # None /\ pw # w /\ Contains(h.nodes[pw], n)
    THEN [h EXCEPT !.nodes[pw] = DictDel(@, n)]
    ELSE h

\* add_node without "node.workspace = self"
Register_KeepsPointer(h, w, n) ==
    [h EXCEPT !.nodes[w] = Append(@, n)]

\* add_node, lines 126-128 and 138-140: insert and update the back pointer
Register(h, w, n) ==
    [h EXCEPT !.nodes[w] = Append(@, n), !.workspace[n] = w]

RECURSIVE move_children_recursive(_, _, _, _)
move_children_recursive(h, w, current_node, i) ==
    IF i > Len(h.children[current_node]) THEN h
    ELSE LET child == h.children[current_node][i] IN
         IF ~Contains(h.nodes[w], child)
         THEN LET moved == Register(Detach(h, w, child), w, child)
                  below == move_children_recursive(moved, w, child, 1)
              IN move_children_recursive(below, w, current_node, i + 1)
         ELSE move_children_recursive(h, w, current_node, i + 1)

\* an add_node that, for a node already present, deletes the key and
\* inserts it again
add_node_Reinserts(h, w, n) ==
    move_children_recursive(
        Register([h EXCEPT !.nodes[w] = DictDel(@, n)], w, n), w, n, 1)

\* an add_node that takes the first parent of the node along
add_node_MovesParent(h, w, n) ==
    IF Contains(h.nodes[w], n) THEN h
    ELSE LET below == move_children_recursive(Register(Detach(h, w, n), w, n),
                                              w, n, 1)
         IN IF h.parents[n] # <<>> /\ ~Contains(below.nodes[w], h.parents[n][1])
            THEN Register(Detach(below, w, h.parents[n][1]), w,
                          h.parents[n][1])
            ELSE below

\* W.add_node(N), lines 113-146
add_node(h, w, n) ==
    IF Contains(h.nodes[w], n) THEN h
    ELSE move_children_recursive(Register(Detach(h, w, n), w, n), w, n, 1)

\* Workspace(name): a new, empty registry
Workspace_init(h) == [h EXCEPT !.nodes = Append(@, <<>>)]

\* ------------------------------------------------------------------ Node
\* for parent in self.parents: parent.children.append(self)
RECURSIVE AppendToParents(_, _, _, _)
AppendToParents(h, ps, i, n) ==
    IF i > Len(ps) THEN h
    ELSE AppendToParents([h EXCEPT !.children[ps[i]] = Append(@, n)],
                         ps, i + 1, n)

\* Node(data, name, workspace, parents, operation) for supported data.
\* ws = None creates the implicit workspace "workspace_for_<name>".
Node_init(h, d, nm, ws, ps, op) ==
    LET id == Len(h.data) + 1
        h0 == IF ws = None THEN Workspace_init(h) ELSE h
        w == IF ws = None THEN Len(h0.nodes) ELSE ws
        h1 == [h0 EXCEPT
                 !.data = Append(@, d),
                 !.name = Append(@, IF nm = NoName
                                    THEN <<"node_", ToString(id)>> ELSE nm),
                 !.operation = Append(@, op),
                 !.parents = Append(@, ps),
                 !.children = Append(@, <<>>),
                 !.workspace = Append(@, w)]
        h2 == IF ~Contains(h1.nodes[w], id) THEN add_node(h1, w, id) ELSE h1
    IN AppendToParents(h2, ps, 1, id)

\* A method's outcome: the heap it leaves, the exception that reaches the
\* caller ("none" if it returns), the node it returns (None otherwise) and
\* what the engine did when the method called it ("ok" also if it did not).
Returns(h, v) == [heap |-> h, raised |-> "none", value |-> v, engine |-> "ok"]
Raises(h, e) == [heap |-> h, raised |-> e, value |-> None, engine |-> e]
Swallows(h, v, e) == [heap |-> h, raised |-> "none", value |-> v, engine |-> e]

\* a node.materialize() that turns an eager table into a lazy one
materialize_Toggles(h, n, eng) ==
    IF is_lazy(h.data[n])
    THEN Returns([h EXCEPT !.data[n] = Collected(@)], n)
    ELSE Returns([h EXCEPT !.data[n] =
                     IF @ = "DataFrame" THEN "LazyFrame" ELSE "DocLazyFrame"],
                 n)

\* a constructor that validates the data after it has registered the node
Node_ChecksLast(h, d, nm, ws, ps, op) ==
    IF d \notin SupportedDataTypes
    THEN Raises(Node_init(h, d, nm, ws, ps, op), "TypeError")
    ELSE Returns(Node_init(h, d, nm, ws, ps, op), Len(h.data) + 1)

\* Node(data, name, workspace, parents, operation): the isinstance test on
\* data comes before any assignment to the graph
Node(h, d, nm, ws, ps, op) ==
    IF d \notin SupportedDataTypes
    THEN Raises(h, "TypeError")
    ELSE Returns(Node_init(h, d, nm, ws, ps, op), Len(h.data) + 1)

\* node.materialize(); eng is what data.collect() does if it is called
materialize(h, n, eng) ==
    IF is_lazy(h.data[n])
    THEN CASE eng = "ok" ->
                Returns([h EXCEPT !.data[n] = Collected(@)], n)
           [] eng = "TypeError" -> Swallows(h, n, eng)
           [] OTHER -> Raises(h, eng)
    ELSE Returns(h, n)

\* for child in node.children.copy(): child.materialize()
\* engs[i] is what the engine does for the i-th child
RECURSIVE materialize_children(_, _, _, _)
materialize_children(h, cs, i, engs) ==
    IF i > Len(cs) THEN Returns(h, None)
    ELSE LET r == materialize(h, cs[i], engs[i]) IN
         IF r.raised # "none" THEN r
         ELSE LET rest == materialize_children(r.heap, cs, i + 1, engs)
              IN IF r.engine # "ok" THEN [rest EXCEPT !.engine = r.engine]
                 ELSE rest

\* for parent in node.parents:
\*     if node in parent.children: parent.children.remove(node)
RECURSIVE RemoveFromParents(_, _, _, _)
RemoveFromParents(h, ps, i, n) ==
    IF i > Len(ps) THEN h
    ELSE RemoveFromParents(
             [h EXCEPT !.children[ps[i]] = ListRemove(@, n)], ps, i + 1, n)

\* a W.remove_node that answers True whether or not the id is registered
remove_node_AlwaysTrue(h, w, node_id, mc, engs) ==
    [heap |-> [h EXCEPT !.nodes[w] = DictDel(@, node_id)],
     raised |-> "none", bool |-> TRUE, engine |-> "ok"]

\* W.remove_node(node_id, materialize_children): heap, exception, result
remove_node(h, w, node_id, mc, engs) ==
    IF ~Contains(h.nodes[w], node_id)
    THEN [heap |-> h, raised |-> "none", bool |-> FALSE, engine |-> "ok"]
    ELSE LET m == IF mc
                  THEN materialize_children(h, h.children[node_id], 1, engs)
                  ELSE Returns(h, None)
         IN IF m.raised # "none"
            THEN [heap |-> m.heap, raised |-> m.raised, bool |-> FALSE,
                  engine |-> m.engine]
            ELSE LET h1 == RemoveFromParents(m.heap, m.heap.parents[node_id],
                                             1, node_id)
                 IN [heap |-> [h1 EXCEPT !.nodes[w] = DictDel(@, node_id)],
                     raised |-> "none", bool |-> TRUE, engine |-> m.engine]

\* result type of data.filter(...) / data.slice(...): the polars frames
\* return their own type, the Doc wrappers re-wrap a frame that still has
\* the document column
EngineFilter(d) ==
    CASE d = "DataFrame" -> "DataFrame"
      [] d = "LazyFrame" -> "LazyFrame"
      [] d = "DocDataFrame" -> "DocDataFrame"
      [] d = "DocLazyFrame" -> "DocLazyFrame"

\* a Node.join that collects every lazy input
JoinInputs_AlwaysCollects(sd, od) ==
    <<IF sd \in {"DataFrame", "LazyFrame"} THEN "DataFrame"
      ELSE "DocDataFrame",
      IF od \in {"DataFrame", "LazyFrame"} THEN "DataFrame"
      ELSE "DocDataFrame">>

\* The pair <<self_data, other_data>> that Node.join hands to the engine.
JoinInputs(sd, od) ==
    IF is_lazy(sd) /\ ~is_lazy(od) THEN <<Collected(sd), od>>
    ELSE IF ~is_lazy(sd) /\ is_lazy(od) THEN <<sd, Collected(od)>>
    ELSE CASE sd = "LazyFrame" /\ od = "DocLazyFrame" -> <<sd, "LazyFrame">>
           [] sd = "DocLazyFrame" /\ od = "LazyFrame" -> <<"LazyFrame", od>>
           [] sd = "DocLazyFrame" /\ od = "DocLazyFrame" ->
                <<"LazyFrame", "LazyFrame">>
           [] sd = "DataFrame" /\ od = "DocDataFrame" -> <<sd, "DataFrame">>
           [] sd = "DocDataFrame" /\ od = "DataFrame" -> <<"DataFrame", od>>
           [] sd = "DocDataFrame" /\ od = "DocDataFrame" ->
                <<"DataFrame", "DataFrame">>
           [] OTHER -> <<sd, od>>

\* self_data.join(other_data): DocDataFrame.join unwraps a DocDataFrame
\* argument and re-wraps the result as a DocDataFrame; a polars frame joins
\* only with a frame of its own type and raises TypeError otherwise.
EngineJoin(sd, od) ==
    CASE sd = "DocDataFrame" /\ od \in {"DocDataFrame", "DataFrame"} ->
            "DocDataFrame"
      [] sd = "DataFrame" /\ od = "DataFrame" -> "DataFrame"
      [] sd = "LazyFrame" /\ od = "LazyFrame" -> "LazyFrame"
      [] OTHER -> "TypeError"

\* a node.collect() without the laziness test
collect_AlwaysNew(h, n, eng) ==
    LET new_node == Len(h.data) + 1
        h1 == Node_init(h, Collected(h.data[n]), <<"collect_">> \o h.name[n],
                        h.workspace[n], <<n>>,
                        <<"collect(">> \o h.name[n] \o <<")">>)
    IN Returns(add_node(h1, h1.workspace[n], new_node), new_node)

\* node.collect(); eng is what data.collect() does if it is called
collect(h, n, eng) ==
    IF is_lazy(h.data[n])
    THEN CASE eng = "ok" ->
                LET new_node == Len(h.data) + 1
                    h1 == Node_init(h, Collected(h.data[n]),
                                    <<"collect_">> \o h.name[n],
                                    h.workspace[n], <<n>>,
                                    <<"collect(">> \o h.name[n] \o <<")">>)
                IN Returns(add_node(h1, h1.workspace[n], new_node), new_node)
           [] eng = "TypeError" -> Swallows(h, n, eng)
           [] OTHER -> Raises(h, eng)
    ELSE Returns(h, n)

\* node.filter(condition)
filter(h, n, eng) ==
    IF eng # "ok" THEN Raises(h, eng)
    ELSE LET new_node == Len(h.data) + 1
             h1 == Node_init(h, EngineFilter(h.data[n]),
                             <<"filter_">> \o h.name[n],
                             h.workspace[n], <<n>>,
                             <<"filter(">> \o h.name[n] \o <<")">>)
         IN Returns(add_node(h1, h1.workspace[n], new_node), new_node)

\* node.slice(offset, length)
slice(h, n, eng) ==
    IF eng # "ok" THEN Raises(h, eng)
    ELSE LET new_node == Len(h.data) + 1
             h1 == Node_init(h, EngineFilter(h.data[n]),
                             <<"slice_">> \o h.name[n],
                             h.workspace[n], <<n>>,
                             <<"slice(">> \o h.name[n] \o <<")">>)
         IN Returns(add_node(h1, h1.workspace[n], new_node), new_node)

\* a node.join(other) that builds the node with parents=[other, self]
join_Swapped(h, n, other, eng) ==
    LET in == JoinInputs(h.data[n], h.data[other])
        joined_data == EngineJoin(in[1], in[2])
    IN IF eng # "ok" THEN Raises(h, eng)
       ELSE IF joined_data \notin SupportedDataTypes
       THEN Raises(h, joined_data)
       ELSE LET new_node == Len(h.data) + 1
                h1 == Node_init(h, joined_data,
                        <<"join_">> \o h.name[n] \o <<"_">> \o h.name[other],
                        h.workspace[n], <<other, n>>,
                        <<"join(">> \o h.name[n] \o <<", ">>
                            \o h.name[other] \o <<")">>)
            IN Returns(add_node(h1, h1.workspace[n], new_node), new_node)

\* node.join(other, **kwargs)
join(h, n, other, eng) ==
    LET in == JoinInputs(h.data[n], h.data[other])
        joined_data == EngineJoin(in[1], in[2])
    IN IF eng # "ok" THEN Raises(h, eng)
       ELSE IF joined_data \notin SupportedDataTypes
       THEN Raises(h, joined_data)
       ELSE LET new_node == Len(h.data) + 1
                h1 == Node_init(h, joined_data,
                        <<"join_">> \o h.name[n] \o <<"_">> \o h.name[other],
                        h.workspace[n], <<n, other>>,
                        <<"join(">> \o h.name[n] \o <<", ">>
                            \o h.name[other] \o <<")">>)
            IN Returns(add_node(h1, h1.workspace[n], new_node), new_node)

\* What a call forwarded by Node.__getattr__ to the table can return: a
\* table of a supported kind (the Doc wrappers re-wrap a frame that still
\* has the document column), a Series, an intermediate polars object
\* (GroupBy, LazyGroupBy, ...) or anything else (a number, a list, ...).
ForwardResults(d) ==
    (IF IsDoc(d) THEN SupportedDataTypes ELSE {"DataFrame", "LazyFrame"})
        \cup {"Series", "intermediate", "other"}

\* a wrapper that makes a node of every polars object, intermediate or not
forward_WrapsIntermediate(h, n, res, eng) ==
    IF eng # "ok" THEN Raises(h, eng)
    ELSE IF res \in SupportedDataTypes \cup {"Series", "intermediate"}
    THEN LET new_node == Len(h.data) + 1
             h1 == Node_init(h, IF res \in {"Series", "intermediate"}
                                THEN "DataFrame" ELSE res,
                             <<"op", "_">> \o h.name[n],
                             h.workspace[n], <<n>>,
                             <<"op", "(">> \o h.name[n] \o <<")">>)
         IN Returns(add_node(h1, h1.workspace[n], new_node), new_node)
    ELSE Returns(h, None)

\* getattr(node, "op")(...), the wrapper of Node.__getattr__; res is what
\* the forwarded call returns.  A Series is turned into a frame.
forward(h, n, res, eng) ==
    IF eng # "ok" THEN Raises(h, eng)
    ELSE IF res \in SupportedDataTypes \cup {"Series"}
    THEN LET new_node == Len(h.data) + 1
             h1 == Node_init(h, IF res = "Series" THEN "DataFrame" ELSE res,
                             <<"op", "_">> \o h.name[n],
                             h.workspace[n], <<n>>,
                             <<"op", "(">> \o h.name[n] \o <<")">>)
         IN Returns(add_node(h1, h1.workspace[n], new_node), new_node)
    ELSE Returns(h, None)

\* node._create_intermediate_proxy(result, "group_by"): the handle keeps the
\* intermediate object and the node it came from
IntermediateProxy(h, n) ==
    [parent_node |-> n,
     obj |-> IF is_lazy(h.data[n]) THEN "LazyGroupBy" ELSE "GroupBy"]

\* what a method of the intermediate object can return
ProxyResults(p) ==
    {IF p.obj = "LazyGroupBy" THEN "LazyFrame" ELSE "DataFrame", "other"}

\* proxy.agg(...), the wrapper of IntermediateProxy.__getattr__
proxy_call(h, p, res, eng) ==
    IF eng # "ok" THEN Raises(h, eng)
    ELSE IF res \in {"DataFrame", "LazyFrame", "DocDataFrame"}
    THEN LET n == p.parent_node
             new_node == Len(h.data) + 1
             h1 == Node_init(h, res,
                             <<"group_by", "_", "agg", "_">> \o h.name[n],
                             h.workspace[n], <<n>>,
                             <<"group_by", ".", "agg", "(">> \o h.name[n]
                                 \o <<")">>)
         IN Returns(add_node(h1, h1.workspace[n], new_node), new_node)
    ELSE Returns(h, None)

\* ----------------------------------------------------------- persistence
\* The JSON document Workspace.serialize writes: the workspace id, the
\* "nodes" dict as the list of its <<key, entry>> pairs in insertion order,
\* and the "relationships" list.  NoDoc: nothing has been written.
NoDoc == [id |-> None, nodes |-> <<>>, relationships |-> <<>>]

\* The workspace Workspace.deserialize returns, with the fields of its
\* nodes as functions of the node id, and the ids for which a warning was
\* printed.  NoWorkspace: nothing has been loaded.
NoWorkspace == [id |-> None, nodes |-> <<>>, data |-> <<>>, name |-> <<>>,
                operation |-> <<>>, parents |-> <<>>, children |-> <<>>,
                warnings |-> <<>>]

\* data_metadata["type"] written by Node.serialize
DataMetadataType(d) ==
    CASE d = "DocDataFrame" -> "DocDataFrame"
      [] d = "DocLazyFrame" -> "DocLazyFrame"
      [] d = "DataFrame" -> "polars_DataFrame"
      [] d = "LazyFrame" -> "polars_LazyFrame"

\* the shape of serialized_data: the JSON text of DocDataFrame.serialize
\* ({"metadata", "data"}), the one of DocLazyFrame.serialize
\* ({"type": "DocLazyFrame", "data", "document_column"}), or the dict of
\* columns of a (collected) polars frame
SerializedData(d) ==
    CASE d = "DocDataFrame" -> "DocDataFrame.json"
      [] d = "DocLazyFrame" -> "DocLazyFrame.json"
      [] OTHER -> "to_dict"

\* node.serialize(format="json")
Node_serialize(h, n) ==
    [node_metadata |-> [id |-> n, name |-> h.name[n],
                        operation |-> h.operation[n],
                        data_type |-> h.data[n],
                        is_lazy |-> is_lazy(h.data[n])],
     data_metadata |-> [type |-> DataMetadataType(h.data[n])],
     serialized_data |-> SerializedData(h.data[n]),
     error |-> FALSE]

\* the entry Workspace.serialize writes when node.serialize raised
ErrorEntry(h, n) ==
    [node_metadata |-> [id |-> n, name |-> h.name[n],
                        operation |-> h.operation[n],
                        data_type |-> "builtins." \o h.data[n],
                        is_lazy |-> is_lazy(h.data[n])],
     data_metadata |-> [type |-> "error"],
     serialized_data |-> "str(e)",
     error |-> TRUE]

\* a Workspace.serialize that leaves out the node that failed to encode and
\* every node after it
SerializeNodes_Aborts(h, reg, i, failing) ==
    LET stop == {j \in 1..Len(reg) : reg[j] \in failing}
        last == IF stop = {} THEN Len(reg)
                ELSE (CHOOSE j \in stop : \A k \in stop : j <= k) - 1
    IN [j \in 1..last |-> <<reg[j], Node_serialize(h, reg[j])>>]

\* for node_id, node in self.nodes.items(): ... ; failing is the set of nodes
\* whose serialize() raises
RECURSIVE SerializeNodes(_, _, _, _)
SerializeNodes(h, reg, i, failing) ==
    IF i > Len(reg) THEN <<>>
    ELSE <<<<reg[i], IF reg[i] \in failing THEN ErrorEntry(h, reg[i])
                     ELSE Node_serialize(h, reg[i])>>>>
         \o SerializeNodes(h, reg, i + 1, failing)

\* for child in node.children: relationships.append({parent_id, child_id})
ChildRelationships(h, n) ==
    [j \in 1..Len(h.children[n]) |->
        [parent_id |-> n, child_id |-> h.children[n][j]]]

\* for node in self.nodes.values(): for child in node.children: ...
RECURSIVE SerializeRelationships(_, _, _)
SerializeRelationships(h, reg, i) ==
    IF i > Len(reg) THEN <<>>
    ELSE ChildRelationships(h, reg[i]) \o SerializeRelationships(h, reg, i + 1)

\* W.serialize(path): the document written
serialize(h, w, failing) ==
    [id |-> w,
     nodes |-> SerializeNodes(h, h.nodes[w], 1, failing),
     relationships |-> SerializeRelationships(h, h.nodes[w], 1)]

\* a Node.deserialize that forgets df.lazy() for a polars LazyFrame
DecodeData_NoLazy(entry) ==
    LET t == entry.data_metadata.type
        p == entry.serialized_data
    IN CASE t = "DocDataFrame" /\ p = "DocDataFrame.json" -> "DocDataFrame"
         [] t = "DocLazyFrame" /\ p = "DocLazyFrame.json" -> "DocLazyFrame"
         [] t \in {"polars_DataFrame", "polars_LazyFrame"} -> "DataFrame"
         [] t = "string_fallback" -> "DataFrame"
         [] OTHER -> "ValueError"

\* the table Node.deserialize rebuilds from an entry, or the exception class
\* it raises: the decoder is chosen by data_metadata["type"]
DecodeData(entry) ==
    LET t == entry.data_metadata.type
        p == entry.serialized_data
    IN CASE t = "DocDataFrame" /\ p = "DocDataFrame.json" -> "DocDataFrame"
         [] t = "DocLazyFrame" /\ p = "DocLazyFrame.json" -> "DocLazyFrame"
         [] t = "polars_DataFrame" -> "DataFrame"
         [] t = "polars_LazyFrame" -> "LazyFrame"
         [] t = "string_fallback" -> "DataFrame"
         [] OTHER -> "ValueError"

\* Node.deserialize(serialized_node, workspace): a node with the recorded
\* id, name and operation, no edges, put into workspace.nodes
Node_deserialize(ws, entry) ==
    LET id == entry.node_metadata.id IN
    [ws EXCEPT !.nodes = IF Contains(@, id) THEN @ ELSE Append(@, id),
               !.data = (id :> DecodeData(entry)) @@ @,
               !.name = (id :> entry.node_metadata.name) @@ @,
               !.operation = (id :> entry.node_metadata.operation) @@ @,
               !.parents = (id :> <<>>) @@ @,
               !.children = (id :> <<>>) @@ @]

\* the first loop of Workspace.deserialize; failing is the set of node ids
\* whose decoder raises.  The result is the workspace with node_map = nodes.
RECURSIVE DeserializeNodes(_, _, _, _)
DeserializeNodes(ws, entries, i, failing) ==
    IF i > Len(entries) THEN ws
    ELSE LET node_id == entries[i][1]
             entry == entries[i][2]
         IN IF entry.error
            THEN DeserializeNodes(ws, entries, i + 1, failing)
            ELSE IF node_id \in failing
                    \/ DecodeData(entry) \notin SupportedDataTypes
            THEN DeserializeNodes(
                     [ws EXCEPT !.warnings = Append(@, node_id)],
                     entries, i + 1, failing)
            ELSE DeserializeNodes(Node_deserialize(ws, entry),
                                  entries, i + 1, failing)

\* the second loop of Workspace.deserialize
RECURSIVE RebuildRelationships(_, _, _)
RebuildRelationships(ws, rels, i) ==
    IF i > Len(rels) THEN ws
    ELSE LET parent == rels[i].parent_id
             child == rels[i].child_id
         IN IF Contains(ws.nodes, parent) /\ Contains(ws.nodes, child)
            THEN RebuildRelationships(
                   [ws EXCEPT
                      !.children[parent] =
                          IF Contains(@, child) THEN @ ELSE Append(@, child),
                      !.parents[child] =
                          IF Contains(@, parent) THEN @ ELSE Append(@, parent)],
                   rels, i + 1)
            ELSE RebuildRelationships(ws, rels, i + 1)

\* Workspace.deserialize(path): the workspace returned
deserialize(d, failing) ==
    RebuildRelationships(
        DeserializeNodes([NoWorkspace EXCEPT !.id = d.id], d.nodes, 1, failing),
        d.relationships, 1)

\* --------------------------------------------------------- graph queries
\* W.get_root_nodes(): the registered nodes with an empty parents list
get_root_nodes(h, w) == SelectSeq(h.nodes[w], LAMBDA n : h.parents[n] = <<>>)

\* a get_topological_order that lists the registry as it is
get_topological_order_Registry(h, w) == h.nodes[w]

\* W.get_topological_order(): roots + others
get_topological_order(h, w) ==
    LET roots == get_root_nodes(h, w)
        others == SelectSeq(h.nodes[w], LAMBDA n : ~Contains(roots, n))
    IN roots \o others

\* for parent in node.parents: edges.append({source: parent.id, target:
\* node.id})
ParentEdges(h, n) ==
    [j \in 1..Len(h.parents[n]) |-> <<h.parents[n][j], n>>]

\* for node in self.nodes.values(): ... for parent in node.parents: ...
RECURSIVE EdgesFromParents(_, _, _)
EdgesFromParents(h, reg, i) ==
    IF i > Len(reg) THEN <<>>
    ELSE ParentEdges(h, reg[i]) \o EdgesFromParents(h, reg, i + 1)

\* for child in node.children: react_edges.append({source: node.id, target:
\* child.id})
ChildEdges(h, n) ==
    [j \in 1..Len(h.children[n]) |-> <<n, h.children[n][j]>>]

\* for node in self.nodes.values(): for child in node.children: ...
RECURSIVE EdgesFromChildren(_, _, _)
EdgesFromChildren(h, reg, i) ==
    IF i > Len(reg) THEN <<>>
    ELSE ChildEdges(h, reg[i]) \o EdgesFromChildren(h, reg, i + 1)

\* W.graph(): the ids of "nodes" and the (source, target) of "edges"
graph(h, w) ==
    [nodes |-> h.nodes[w], edges |-> EdgesFromParents(h, h.nodes[w], 1)]

\* W.to_react_flow_json(): the ids of "nodes" and the (source, target) of
\* "edges"
to_react_flow_json(h, w) ==
    [nodes |-> h.nodes[w], edges |-> EdgesFromChildren(h, h.nodes[w], 1)]

\* DocWorkspaceAPIUtils.workspace_to_react_flow(W): the ids of nodes and
\* the (source, target) of edges
workspace_to_react_flow(h, w) ==
    [nodes |-> h.nodes[w], edges |-> EdgesFromParents(h, h.nodes[w], 1)]

\* The run of get_descendants / get_ancestors: the call and its arguments,
\* the stack of active traverse() frames <<node, index of the next element
\* of its children (parents) list>>, the visited set, the result list, the
\* nodes whose traverse() body was entered, and whether the call returned.
NoTraversal ==
    [call |-> "none", self |-> None, arg |-> None, stack |-> <<>>,
     visited |-> {}, out |-> <<>>, entered |-> <<>>, done |-> FALSE]

\* node.children in get_descendants, node.parents in get_ancestors
Links(h, call, n) ==
    IF call = "get_descendants" THEN h.children[n] ELSE h.parents[n]

\* the call up to the first loop iteration: [] for an id that is not a key
\* of self.nodes, else traverse(self.nodes[node_id]) is entered
traverse_start(h, call, w, node_id) ==
    IF ~Contains(h.nodes[w], node_id)
    THEN [NoTraversal EXCEPT !.call = call, !.self = w, !.arg = node_id,
                             !.done = TRUE]
    ELSE [NoTraversal EXCEPT !.call = call, !.self = w, !.arg = node_id,
                             !.stack = <<<<node_id, 1>>>>,
                             !.visited = {node_id},
                             !.entered = <<node_id>>]

\* a traverse() without "if node.id in visited: return"
traverse_step_NoGuard(h, t) ==
    LET top == t.stack[Len(t.stack)]
        links == Links(h, t.call, top[1])
    IN IF top[2] > Len(links)
       THEN [t EXCEPT !.stack = SubSeq(@, 1, Len(@) - 1),
                      !.done = (Len(t.stack) = 1)]
       ELSE [t EXCEPT !.out = Append(@, links[top[2]]),
                      !.entered = Append(@, links[top[2]]),
                      !.stack = Append([@ EXCEPT ![Len(@)] =
                                           <<top[1], top[2] + 1>>],
                                       <<links[top[2]], 1>>)]

\* one iteration of "for child in node.children: descendants.append(child);
\* traverse(child)" in the innermost active frame, or the return of that
\* frame when its list is exhausted
traverse_step(h, t) ==
    LET top == t.stack[Len(t.stack)]
        links == Links(h, t.call, top[1])
    IN IF top[2] > Len(links)
       THEN [t EXCEPT !.stack = SubSeq(@, 1, Len(@) - 1),
                      !.done = (Len(t.stack) = 1)]
       ELSE LET c == links[top[2]]
                advanced == [t.stack EXCEPT ![Len(t.stack)] =
                                <<top[1], top[2] + 1>>]
            IN IF c \in t.visited
               THEN [t EXCEPT !.out = Append(@, c), !.stack = advanced]
               ELSE [t EXCEPT !.out = Append(@, c),
                              !.visited = @ \cup {c},
                              !.entered = Append(@, c),
                              !.stack = Append(advanced, <<c, 1>>)]

\* the call run to its return
RECURSIVE traverse_run(_, _)
traverse_run(h, t) ==
    IF t.done THEN t ELSE traverse_run(h, traverse_step(h, t))

\* W.get_descendants(node_id)
get_descendants(h, w, node_id) ==
    traverse_run(h, traverse_start(h, "get_descendants", w, node_id)).out

\* W.get_ancestors(node_id)
get_ancestors(h, w, node_id) ==
    traverse_run(h, traverse_start(h, "get_ancestors", w, node_id)).out

\* ------------------------------------------------------ WorkspaceManager
\* The manager of the web backend.  user_sessions[u] is the set of keys of
\* the session dict of user u (a missing user is an empty session, as
\* _get_user_session creates it), user_current[u] the current workspace id
\* or None, workspace_files[u] the set of ids for which a file
\* workspace_<id>.json exists in the workspace folder of u.
Users == 1..MaxUsers
WorkspaceIds == 1..MaxManagerWs

Manager == [user_sessions |-> user_sessions, user_current |-> user_current,
            workspace_files |-> workspace_files]

SetManager(m) ==
    /\ user_sessions' = m.user_sessions
    /\ user_current' = m.user_current
    /\ workspace_files' = m.workspace_files

\* WorkspaceManager.__init__, with an empty data folder
ManagerInit ==
    /\ user_sessions = [u \in Users |-> {}]
    /\ user_current = [u \in Users |-> None]
    /\ workspace_files = [u \in Users |-> {}]

\* the outcome of a manager call: the state it leaves, the exception that
\* reaches the caller, the boolean returned (for get_workspace and
\* create_workspace: a workspace was returned) and whether the workspace
\* returned was read from its file
Outcome(m, r, b, l) == [m |-> m, raised |-> r, bool |-> b, loaded |-> l]

\* set_current_workspace(user_id, workspace_id)
set_current_workspace(m, u, id) ==
    IF id = None
    THEN Outcome([m EXCEPT !.user_current[u] = None], "none", TRUE, FALSE)
    ELSE IF id \notin m.user_sessions[u]
    THEN Outcome(m, "none", FALSE, FALSE)
    ELSE Outcome([m EXCEPT !.user_current[u] = id], "none", TRUE, FALSE)

\* _save_workspace_to_disk(user_id, workspace_id, workspace); saved tells
\* whether the file could be written
save_workspace_to_disk(m, u, id, saved) ==
    IF saved
    THEN Outcome([m EXCEPT !.workspace_files[u] = @ \cup {id}],
                 "none", FALSE, FALSE)
    ELSE Outcome(m, "Exception", FALSE, FALSE)

\* create_workspace(user_id, name): id is the uuid generated
create_workspace(m, u, id, saved) ==
    LET m1 == [m EXCEPT !.user_sessions[u] = @ \cup {id}]
        m2 == IF m1.user_current[u] = None
              THEN set_current_workspace(m1, u, id).m ELSE m1
        s == save_workspace_to_disk(m2, u, id, saved)
    IN Outcome(s.m, s.raised, s.raised = "none", FALSE)

\* _load_workspace_from_disk(user_id, workspace_id): a workspace or None;
\* readable tells whether Workspace.deserialize returns
load_workspace_from_disk(m, u, id, readable) ==
    id \in m.workspace_files[u] /\ readable

\* get_workspace(user_id, workspace_id)
get_workspace(m, u, id, readable) ==
    IF id \notin m.user_sessions[u]
    THEN IF load_workspace_from_disk(m, u, id, readable)
         THEN Outcome([m EXCEPT !.user_sessions[u] = @ \cup {id}],
                      "none", TRUE, TRUE)
         ELSE Outcome(m, "none", FALSE, FALSE)
    ELSE Outcome(m, "none", TRUE, FALSE)

\* list_user_workspaces(user_id); unreadable is the set of files that
\* Workspace.deserialize fails to read
list_user_workspaces(m, u, unreadable) ==
    Outcome([m EXCEPT !.user_sessions[u] =
                         @ \cup (m.workspace_files[u] \ unreadable)],
            "none", TRUE, FALSE)

\* a delete_workspace that leaves the current-workspace pointer alone
delete_workspace_KeepsCurrent(m, u, id) ==
    Outcome([m EXCEPT !.user_sessions[u] = @ \ {id},
                      !.workspace_files[u] = @ \ {id}],
            "none", id \in m.workspace_files[u], FALSE)

\* delete_workspace(user_id, workspace_id)
delete_workspace(m, u, id) ==
    LET m1 == [m EXCEPT !.user_sessions[u] = @ \ {id}]
        m2 == IF m1.user_current[u] = id
              THEN set_current_workspace(m1, u, None).m ELSE m1
    IN IF id \in m2.workspace_files[u]
       THEN Outcome([m2 EXCEPT !.workspace_files[u] = @ \ {id}],
                    "none", TRUE, FALSE)
       ELSE Outcome(m2, "none", FALSE, FALSE)

\* unload_workspace(user_id, workspace_id, save); a failure to save is
\* caught and printed
unload_workspace(m, u, id, save, saved) ==
    IF id \in m.user_sessions[u]
    THEN LET m1 == IF save THEN save_workspace_to_disk(m, u, id, saved).m
                   ELSE m
             m2 == [m1 EXCEPT !.user_sessions[u] = @ \ {id}]
         IN Outcome(IF m2.user_current[u] = id
                    THEN set_current_workspace(m2, u, None).m ELSE m2,
                    "none", TRUE, FALSE)
    ELSE IF id \in m.workspace_files[u]
    THEN Outcome(IF m.user_current[u] = id
                 THEN set_current_workspace(m, u, None).m ELSE m,
                 "none", TRUE, FALSE)
    ELSE Outcome(m, "none", FALSE, FALSE)

\* ----------------------------------------------------------- call record
\* ret describes the call that produced the current state:
\*   call    the method, self its receiver (node id or workspace index),
\*   arg     its node / node-id argument, flag its boolean argument,
\*   engine  what the table engine did during the call: "ok" if it was not
\*           asked or succeeded, else the exception it raised,
\*   raised  the exception class that reached the caller ("none": returned),
\*   value   the node returned (None if the call returns no node),
\*   bool    the boolean returned (remove_node),
\*   list    the list of nodes returned (graph queries),
\*   edges   the list of <<source, target>> pairs returned (graph views).
Ret(c, s, a, f, e, r, v, b) ==
    [call |-> c, self |-> s, arg |-> a, flag |-> f,
     engine |-> e, raised |-> r, value |-> v, bool |-> b, list |-> <<>>,
     edges |-> <<>>]

\* ---------------------------------------------------------------- Init
Init ==
    /\ data = <<>>
    /\ name = <<>>
    /\ operation = <<>>
    /\ parents = <<>>
    /\ children = <<>>
    /\ workspace = <<>>
    /\ nodes = <<>>
    /\ ret = Ret("none", None, None, FALSE, "ok", "none", None, FALSE)
    /\ doc = NoDoc
    /\ loaded = NoWorkspace
    /\ proxies = {}
    /\ trav = NoTraversal
    /\ ManagerInit

\* -------------------------------------------------------------- actions
\* Workspace()
NewWorkspace ==
    /\ SetHeap(Workspace_init(Heap))
    /\ UNCHANGED <<fileVars, proxies, trav, managerVars>>
    /\ ret' = Ret("Workspace", Len(nodes) + 1, None, FALSE, "ok", "none",
                  None, FALSE)

ParentLists(h) ==
    UNION {[1..k -> Allocated(h)] : k \in 0..MaxParents}

\* Node(data, name, workspace, parents) called by a client
NewNode(d, nm, ws, ps) ==
    /\ d \in SupportedDataTypes
    /\ SetHeap(Node_init(Heap, d, nm, ws, ps, <<>>))
    /\ UNCHANGED <<fileVars, proxies, trav, managerVars>>
    /\ ret' = Ret("Node", Len(data) + 1, None, FALSE, "ok", "none",
                       Len(data) + 1, FALSE)

\* Node(data, name, workspace, parents) with data that is not a table;
\* the call record keeps the first parent and whether workspace was None
NewNodeRejected(d, ws, ps) ==
    LET r == Node(Heap, d, NoName, ws, ps, <<>>) IN
    /\ d \notin SupportedDataTypes
    /\ SetHeap(r.heap)
    /\ UNCHANGED <<fileVars, proxies, trav, managerVars>>
    /\ ret' = Ret("Node", None, IF ps = <<>> THEN None ELSE ps[1], ws = None,
                  "ok", r.raised, r.value, FALSE)

\* W.add_node(N)
AddNode(w, n) ==
    /\ SetHeap(add_node(Heap, w, n))
    /\ UNCHANGED <<fileVars, proxies, trav, managerVars>>
    /\ ret' = Ret("add_node", w, n, FALSE, "ok", "none", n, FALSE)

\* W.remove_node(node_id, materialize_children)
RemoveNode(w, node_id, mc, engs) ==
    LET r == remove_node(Heap, w, node_id, mc, engs) IN
    /\ SetHeap(r.heap)
    /\ UNCHANGED <<fileVars, proxies, trav, managerVars>>
    /\ ret' = Ret("remove_node", w, node_id, mc, r.engine, r.raised, None,
                  r.bool)

\* N.materialize()
Materialize(n, eng) ==
    LET r == materialize(Heap, n, eng) IN
    /\ SetHeap(r.heap)
    /\ UNCHANGED <<fileVars, proxies, trav, managerVars>>
    /\ ret' = Ret("materialize", n, None, FALSE, r.engine, r.raised, r.value,
                  FALSE)

\* a call of a node method that may create one node
NodeCall(c, n, a, r) ==
    /\ SetHeap(r.heap)
    /\ UNCHANGED <<fileVars, proxies, trav, managerVars>>
    /\ ret' = Ret(c, n, a, FALSE, r.engine, r.raised, r.value, FALSE)

Collect(n, eng) == NodeCall("collect", n, None, collect(Heap, n, eng))

Filter(n, eng) == NodeCall("filter", n, None, filter(Heap, n, eng))

Slice(n, eng) == NodeCall("slice", n, None, slice(Heap, n, eng))

Join(n, other, eng) ==
    NodeCall("join", n, other, join(Heap, n, other, eng))

\* getattr(N, "op")(...) returning a table, a Series or a plain value
Forward(n, res, eng) ==
    /\ res # "intermediate"
    /\ NodeCall("forward", n, None, forward(Heap, n, res, eng))

\* N.group_by(...): the forwarded call returns an intermediate object and
\* the client gets a proxy for it
GroupBy(n, eng) ==
    LET r == forward(Heap, n, "intermediate", eng) IN
    /\ SetHeap(r.heap)
    /\ UNCHANGED <<fileVars, trav, managerVars>>
    /\ proxies' = IF r.raised = "none"
                  THEN proxies \cup {IntermediateProxy(Heap, n)}
                  ELSE proxies
    /\ ret' = Ret("group_by", n, None, FALSE, r.engine, r.raised, r.value,
                  FALSE)

\* proxy.agg(...) on a proxy obtained earlier
Agg(p, res, eng) ==
    /\ p \in proxies
    /\ NodeCall("agg", p.parent_node, None, proxy_call(Heap, p, res, eng))

\* the sets of nodes whose encoder, or decoder, raises during one call
FailingSets(S) == {{}} \cup {{n} : n \in S}

\* W.serialize(path); the call record keeps the node that failed to encode
Serialize(w, failing) ==
    /\ doc' = serialize(Heap, w, failing)
    /\ ret' = Ret("serialize", w,
                  IF failing = {} THEN None ELSE CHOOSE n \in failing : TRUE,
                  FALSE, "ok", "none", None, FALSE)
    /\ UNCHANGED <<heapVars, loaded, proxies, trav, managerVars>>

\* Workspace.deserialize(path) of the document written last; the call record
\* keeps the node whose decoder raised
Deserialize(failing) ==
    /\ doc # NoDoc
    /\ loaded' = deserialize(doc, failing)
    /\ ret' = Ret("deserialize", doc.id,
                  IF failing = {} THEN None ELSE CHOOSE n \in failing : TRUE,
                  FALSE, "ok", "none", None, FALSE)
    /\ UNCHANGED <<heapVars, doc, proxies, trav, managerVars>>

\* W.get_topological_order()
GetTopologicalOrder(w) ==
    /\ ret' = [Ret("get_topological_order", w, None, FALSE, "ok", "none",
                   None, FALSE) EXCEPT !.list = get_topological_order(Heap, w)]
    /\ UNCHANGED <<heapVars, fileVars, proxies, trav, managerVars>>

\* a derived view of workspace w is asked for
View(c, w, g) ==
    /\ ret' = [Ret(c, w, None, FALSE, "ok", "none", None, FALSE)
                  EXCEPT !.list = g.nodes, !.edges = g.edges]
    /\ UNCHANGED <<heapVars, fileVars, proxies, trav, managerVars>>

\* W.graph()
Graph(w) == View("graph", w, graph(Heap, w))

\* W.to_react_flow_json()
ToReactFlowJson(w) == View("to_react_flow_json", w, to_react_flow_json(Heap, w))

\* DocWorkspaceAPIUtils.workspace_to_react_flow(W)
WorkspaceToReactFlow(w) ==
    View("workspace_to_react_flow", w, workspace_to_react_flow(Heap, w))

\* W.get_descendants(node_id)
GetDescendants(w, node_id) ==
    /\ ret' = [Ret("get_descendants", w, node_id, FALSE, "ok", "none",
                   None, FALSE) EXCEPT !.list = get_descendants(Heap, w, node_id)]
    /\ UNCHANGED <<heapVars, fileVars, proxies, trav, managerVars>>

\* W.get_ancestors(node_id)
GetAncestors(w, node_id) ==
    /\ ret' = [Ret("get_ancestors", w, node_id, FALSE, "ok", "none",
                   None, FALSE) EXCEPT !.list = get_ancestors(Heap, w, node_id)]
    /\ UNCHANGED <<heapVars, fileVars, proxies, trav, managerVars>>

\* W.get_descendants(node_id) or W.get_ancestors(node_id) is called
StartTraverse(call, w, node_id) ==
    /\ trav.call = "none"
    /\ trav' = traverse_start(Heap, call, w, node_id)
    /\ UNCHANGED <<heapVars, fileVars, proxies, ret, managerVars>>

\* the call in progress makes its next step
TraverseStep ==
    /\ trav.call # "none"
    /\ ~trav.done
    /\ trav' = traverse_step(Heap, trav)
    /\ UNCHANGED <<heapVars, fileVars, proxies, ret, managerVars>>

\* a call of the manager: self is the user, arg the workspace id, flag the
\* save argument, engine what the file system did, bool the result
ManagerCall(c, u, id, save, fs, r) ==
    /\ SetManager(r.m)
    /\ ret' = [Ret(c, u, id, save, fs, r.raised, None, r.bool)
                  EXCEPT !.list = IF r.loaded THEN <<"loaded">> ELSE <<>>]
    /\ UNCHANGED <<heapVars, fileVars, proxies, trav>>

\* the ids generate_workspace_id() can return: those no session, pointer or
\* file knows
UnusedIds ==
    {id \in WorkspaceIds :
        \A u \in Users : /\ id \notin user_sessions[u]
                         /\ id \notin workspace_files[u]
                         /\ user_current[u] # id}

CreateWorkspace(u, id, saved) ==
    /\ id \in UnusedIds
    /\ ManagerCall("create_workspace", u, id, FALSE,
                   IF saved THEN "ok" ELSE "Exception",
                   create_workspace(Manager, u, id, saved))

SetCurrentWorkspace(u, id) ==
    ManagerCall("set_current_workspace", u, id, FALSE, "ok",
                set_current_workspace(Manager, u, id))

GetWorkspace(u, id, readable) ==
    ManagerCall("get_workspace", u, id, FALSE,
                IF readable THEN "ok" ELSE "Exception",
                get_workspace(Manager, u, id, readable))

ListUserWorkspaces(u, unreadable) ==
    ManagerCall("list_user_workspaces", u, None, FALSE,
                IF unreadable = {} THEN "ok" ELSE "Exception",
                list_user_workspaces(Manager, u, unreadable))

DeleteWorkspace(u, id) ==
    ManagerCall("delete_workspace", u, id, FALSE, "ok",
                delete_workspace(Manager, u, id))

UnloadWorkspace(u, id, save, saved) ==
    ManagerCall("unload_workspace", u, id, save,
                IF id \in user_sessions[u] /\ save /\ ~saved
                THEN "Exception" ELSE "ok",
                unload_workspace(Manager, u, id, save, saved))

\* the outcomes of the engine for each child of a node being removed; a
\* call without materialize_children never asks the engine
EngineRuns(h, node_id, mc) ==
    IF mc /\ node_id \in Allocated(h)
    THEN [1..Len(h.children[node_id]) -> EngineOutcomes]
    ELSE {<<>>}

\* ------------------------------------------------------- specifications
\* The bounds live here, not in the actions: a call is taken only while the
\* heap it leaves has at most maxN nodes and maxW workspaces.
Room(h, maxN, maxW) == Len(h.data) <= maxN /\ Len(h.nodes) <= maxW

\* Lineage graph and registries.  Workspace.add_node, Workspace.remove_node
\* and Node.__init__ never look at the kind of table a node holds, so the
\* clients of this specification create lazy plain tables only and the
\* engine always succeeds; eager nodes come from collect().
Next ==
    \/ Room(Workspace_init(Heap), MaxNodes, MaxWs) /\ NewWorkspace
    \/ \E nm \in NameArgs, ws \in {None} \cup Workspaces(Heap),
          ps \in ParentLists(Heap) :
          /\ Room(Node_init(Heap, "LazyFrame", nm, ws, ps, <<>>),
                  MaxNodes, MaxWs)
          /\ NewNode("LazyFrame", nm, ws, ps)
    \/ \E w \in Workspaces(Heap), n \in Allocated(Heap) : AddNode(w, n)
    \/ \E w \in Workspaces(Heap), id \in Allocated(Heap) \cup {None} :
          RemoveNode(w, id, FALSE, <<>>)
    \/ \E n \in Allocated(Heap) :
          /\ Room(collect(Heap, n, "ok").heap, MaxNodes, MaxWs)
          /\ Collect(n, "ok")
    \/ \E n \in Allocated(Heap) :
          /\ Room(filter(Heap, n, "ok").heap, MaxNodes, MaxWs)
          /\ Filter(n, "ok")
    \/ \E n \in Allocated(Heap), other \in Allocated(Heap) :
          /\ Room(join(Heap, n, other, "ok").heap, MaxNodes, MaxWs)
          /\ Join(n, other, "ok")

Spec == Init /\ [][Next]_vars

\* Laziness and engine failures.  Every kind of table, every delegated call
\* and every engine outcome, in the workspaces the nodes create implicitly.
NextEngine ==
    \/ \E d \in SupportedDataTypes, nm \in NameArgs,
          ws \in {None} \cup Workspaces(Heap) :
          /\ Room(Node_init(Heap, d, nm, ws, <<>>, <<>>),
                  MaxEngineNodes, MaxEngineWs)
          /\ NewNode(d, nm, ws, <<>>)
    \/ \E d \in DataArgs : NewNodeRejected(d, None, <<>>)
    \/ \E n \in Allocated(Heap), eng \in EngineOutcomes : Materialize(n, eng)
    \/ \E n \in Allocated(Heap), eng \in EngineOutcomes :
          /\ Room(collect(Heap, n, eng).heap, MaxEngineNodes, MaxEngineWs)
          /\ Collect(n, eng)
    \/ \E n \in Allocated(Heap), eng \in EngineOutcomes :
          /\ Room(filter(Heap, n, eng).heap, MaxEngineNodes, MaxEngineWs)
          /\ Filter(n, eng)
    \/ \E n \in Allocated(Heap), eng \in EngineOutcomes :
          /\ Room(slice(Heap, n, eng).heap, MaxEngineNodes, MaxEngineWs)
          /\ Slice(n, eng)
    \/ \E n \in Allocated(Heap), other \in Allocated(Heap),
          eng \in EngineOutcomes :
          /\ Room(join(Heap, n, other, eng).heap, MaxEngineNodes, MaxEngineWs)
          /\ Join(n, other, eng)

\* A session that builds a graph and then saves a workspace and loads the
\* document back; the document is written once the graph is built.
NextPersist ==
    \/ /\ doc = NoDoc
       /\ Room(Workspace_init(Heap), MaxPersistNodes, MaxPersistWs)
       /\ NewWorkspace
    \/ \E d \in SupportedDataTypes, ws \in {None} \cup Workspaces(Heap),
          ps \in ParentLists(Heap) :
          /\ doc = NoDoc
          /\ Room(Node_init(Heap, d, NoName, ws, ps, <<>>),
                  MaxPersistNodes, MaxPersistWs)
          /\ NewNode(d, NoName, ws, ps)
    \/ \E w \in Workspaces(Heap), n \in Allocated(Heap) :
          doc = NoDoc /\ AddNode(w, n)
    \/ \E w \in Workspaces(Heap), n \in Allocated(Heap) :
          doc = NoDoc /\ RemoveNode(w, n, FALSE, <<>>)
    \/ \E w \in Workspaces(Heap) :
          \E failing \in FailingSets(Range(nodes[w])) :
             doc = NoDoc /\ Serialize(w, failing)
    \/ \E failing \in FailingSets({e[1] : e \in Range(doc.nodes)}) :
          loaded = NoWorkspace /\ Deserialize(failing)

\* The whole life of a node: every core operation, with every engine
\* outcome, on every kind of table; the session ends by saving a workspace.
NextLife ==
    \/ \E d \in SupportedDataTypes, ws \in {None} \cup Workspaces(Heap),
          ps \in ParentLists(Heap) :
          /\ doc = NoDoc
          /\ Room(Node_init(Heap, d, NoName, ws, ps, <<>>),
                  MaxLifeNodes, MaxLifeWs)
          /\ NewNode(d, NoName, ws, ps)
    \/ \E d \in DataArgs, ws \in {None} \cup Workspaces(Heap),
          ps \in ParentLists(Heap) :
          doc = NoDoc /\ NewNodeRejected(d, ws, ps)
    \/ \E n \in Allocated(Heap), eng \in EngineOutcomes :
          doc = NoDoc /\ Materialize(n, eng)
    \/ \E n \in Allocated(Heap), eng \in EngineOutcomes :
          /\ doc = NoDoc
          /\ Room(collect(Heap, n, eng).heap, MaxLifeNodes, MaxLifeWs)
          /\ Collect(n, eng)
    \/ \E n \in Allocated(Heap), eng \in EngineOutcomes :
          /\ doc = NoDoc
          /\ Room(filter(Heap, n, eng).heap, MaxLifeNodes, MaxLifeWs)
          /\ Filter(n, eng)
    \/ \E n \in Allocated(Heap), eng \in EngineOutcomes :
          /\ doc = NoDoc
          /\ Room(slice(Heap, n, eng).heap, MaxLifeNodes, MaxLifeWs)
          /\ Slice(n, eng)
    \/ \E n \in Allocated(Heap), other \in Allocated(Heap),
          eng \in EngineOutcomes :
          /\ doc = NoDoc
          /\ Room(join(Heap, n, other, eng).heap, MaxLifeNodes, MaxLifeWs)
          /\ Join(n, other, eng)
    \/ \E n \in Allocated(Heap), eng \in EngineOutcomes :
          \E res \in ForwardResults(data[n]) :
             /\ doc = NoDoc
             /\ Room(forward(Heap, n, res, eng).heap,
                     MaxLifeNodes, MaxLifeWs)
             /\ Forward(n, res, eng)
    \/ \E n \in Allocated(Heap), eng \in EngineOutcomes :
          /\ doc = NoDoc
          /\ Cardinality(proxies) < MaxProxies
          /\ GroupBy(n, eng)
    \/ \E p \in proxies, eng \in EngineOutcomes :
          \E res \in ProxyResults(p) :
             /\ doc = NoDoc
             /\ Room(proxy_call(Heap, p, res, eng).heap,
                     MaxLifeNodes, MaxLifeWs)
             /\ Agg(p, res, eng)
    \/ \E w \in Workspaces(Heap), n \in Allocated(Heap) :
          doc = NoDoc /\ AddNode(w, n)
    \/ \E w \in Workspaces(Heap), id \in Allocated(Heap) \cup {None},
          mc \in BOOLEAN :
          \E engs \in EngineRuns(Heap, id, mc) :
             doc = NoDoc /\ RemoveNode(w, id, mc, engs)
    \/ \E w \in Workspaces(Heap) : doc = NoDoc /\ Serialize(w, {})

SpecLife == Init /\ [][NextLife]_vars

\* Joins of tables of every kind, in one or two workspaces.
NextJoin ==
    \/ \E d \in SupportedDataTypes, ws \in {None} \cup Workspaces(Heap) :
          /\ Room(Node_init(Heap, d, NoName, ws, <<>>, <<>>),
                  MaxJoinNodes, MaxJoinWs)
          /\ NewNode(d, NoName, ws, <<>>)
    \/ \E w \in Workspaces(Heap), n \in Allocated(Heap) : AddNode(w, n)
    \/ \E n \in Allocated(Heap), other \in Allocated(Heap),
          eng \in EngineOutcomes :
          /\ Room(join(Heap, n, other, eng).heap, MaxJoinNodes, MaxJoinWs)
          /\ Join(n, other, eng)

SpecJoin == Init /\ [][NextJoin]_vars

SpecPersist == Init /\ [][NextPersist]_vars

\* Graph queries.  A session builds lineage graphs of lazy plain tables by
\* construction, forwarded operations and joins, moves and removes nodes,
\* and asks a workspace for its derived views.
NextQuery ==
    \/ Room(Workspace_init(Heap), MaxQueryNodes, MaxQueryWs) /\ NewWorkspace
    \/ \E ws \in {None} \cup Workspaces(Heap) :
          /\ Room(Node_init(Heap, "LazyFrame", NoName, ws, <<>>, <<>>),
                  MaxQueryNodes, MaxQueryWs)
          /\ NewNode("LazyFrame", NoName, ws, <<>>)
    \/ \E n \in Allocated(Heap) :
          /\ Room(forward(Heap, n, "LazyFrame", "ok").heap,
                  MaxQueryNodes, MaxQueryWs)
          /\ Forward(n, "LazyFrame", "ok")
    \/ \E n \in Allocated(Heap), other \in Allocated(Heap) :
          /\ Room(join(Heap, n, other, "ok").heap, MaxQueryNodes, MaxQueryWs)
          /\ Join(n, other, "ok")
    \/ \E w \in Workspaces(Heap), n \in Allocated(Heap) : AddNode(w, n)
    \/ \E w \in Workspaces(Heap), id \in Allocated(Heap) :
          RemoveNode(w, id, FALSE, <<>>)
    \/ \E w \in Workspaces(Heap) : GetTopologicalOrder(w)
    \/ \E w \in Workspaces(Heap), id \in Allocated(Heap) \cup {None} :
          GetDescendants(w, id)
    \/ \E w \in Workspaces(Heap), id \in Allocated(Heap) \cup {None} :
          GetAncestors(w, id)
    \/ \E w \in Workspaces(Heap) : Graph(w)
    \/ \E w \in Workspaces(Heap) : ToReactFlowJson(w)
    \/ \E w \in Workspaces(Heap) : WorkspaceToReactFlow(w)

SpecQuery == Init /\ [][NextQuery]_vars

\* Sessions of the web backend: users create, select, fetch, list, delete
\* and unload workspaces; writing a file can fail, and so can reading one.
NextManager ==
    \/ \E u \in Users, id \in WorkspaceIds, saved \in BOOLEAN :
          CreateWorkspace(u, id, saved)
    \/ \E u \in Users, id \in WorkspaceIds \cup {None} :
          SetCurrentWorkspace(u, id)
    \/ \E u \in Users, id \in WorkspaceIds, readable \in BOOLEAN :
          GetWorkspace(u, id, readable)
    \/ \E u \in Users : \E unreadable \in SUBSET workspace_files[u] :
          ListUserWorkspaces(u, unreadable)
    \/ \E u \in Users, id \in WorkspaceIds : DeleteWorkspace(u, id)
    \/ \E u \in Users, id \in WorkspaceIds, save \in BOOLEAN,
          saved \in BOOLEAN :
          UnloadWorkspace(u, id, save, saved)

SpecManager == Init /\ [][NextManager]_vars

\* the elements of a set of numbers in ascending order
RECURSIVE SortedSeq(_)
SortedSeq(S) ==
    IF S = {} THEN <<>>
    ELSE LET m == CHOOSE x \in S : \A y \in S : x <= y
         IN <<m>> \o SortedSeq(S \ {m})

\* The traversals as functions of the lists they read.  parents and children
\* are public list attributes; the traversals are written to be safe on any
\* content of them, so the inputs are all edge relations over up to
\* MaxTravNodes nodes of one workspace, cyclic ones included, with the last
\* node registered or not.
InitTraverse ==
    \E k \in 1..MaxTravNodes :
    \E rel \in SUBSET ((1..k) \X (1..k)) :
    \E reg \in {k - 1, k} :
        /\ data = [n \in 1..k |-> "LazyFrame"]
        /\ name = [n \in 1..k |-> <<"node_", ToString(n)>>]
        /\ operation = [n \in 1..k |-> <<>>]
        /\ children = [n \in 1..k |->
                          SortedSeq({c \in 1..k : <<n, c>> \in rel})]
        /\ parents = [n \in 1..k |->
                         SortedSeq({q \in 1..k : <<q, n>> \in rel})]
        /\ workspace = [n \in 1..k |-> 1]
        /\ nodes = <<[i \in 1..reg |-> i]>>
        /\ ret = Ret("none", None, None, FALSE, "ok", "none", None, FALSE)
        /\ doc = NoDoc
        /\ loaded = NoWorkspace
        /\ proxies = {}
        /\ trav = NoTraversal
        /\ ManagerInit

\* one call of get_descendants or get_ancestors, step by step
NextTraverse ==
    \/ \E call \in {"get_descendants", "get_ancestors"},
          w \in Workspaces(Heap), id \in Allocated(Heap) \cup {None} :
          StartTraverse(call, w, id)
    \/ TraverseStep

\* a call that has started keeps running until it returns
SpecTraverse ==
    InitTraverse /\ [][NextTraverse]_vars /\ WF_vars(TraverseStep)

SpecEngine == Init /\ [][NextEngine]_vars

\* ------------------------------------------------------------ properties
Registered(n) == \E w \in Workspaces(Heap) : Contains(nodes[w], n)

RECURSIVE ChildClosure(_)
ChildClosure(S) ==
    LET T == S \cup UNION {Range(children[n]) : n \in S}
    IN IF T = S THEN S ELSE ChildClosure(T)

\* the nodes reachable from n via one or more child edges
Reachable(n) == ChildClosure(Range(children[n]))

\* C1 (edge symmetry, P1): for all nodes A and B registered in a workspace,
\* B is in A.children if and only if A is in B.parents.
C1_EdgeSymmetry ==
    \A a \in Allocated(Heap), b \in Allocated(Heap) :
        (Registered(a) /\ Registered(b)) =>
            (Contains(children[a], b) <=> Contains(parents[b], a))

\* C2 (descendant closure, P3): when W.add_node(N) has returned, every node
\* reachable from N via child edges points to W and is in W's registry.
C2_DescendantClosure ==
    ret.call = "add_node" =>
        \A d \in Reachable(ret.arg) :
            workspace[d] = ret.self /\ Contains(nodes[ret.self], d)

\* C3 (removal severs edges, P8): when W.remove_node(id) has removed a node,
\* no node remaining in W lists it among its parents or its children.
C3_RemovalSeversEdges ==
    (ret.call = "remove_node" /\ ret.bool) =>
        \A m \in Range(nodes[ret.self]) :
            ~Contains(parents[m], ret.arg) /\ ~Contains(children[m], ret.arg)

\* C4 (ownership pointer, P2): every node in the registry of a workspace W
\* has its workspace field equal to W.
C4_OwnershipPointer ==
    \A w \in Workspaces(Heap) :
        \A n \in Range(nodes[w]) : workspace[n] = w

\* a node derived in one workspace has been moved, with its child, into
\* another one while its parent stayed behind
C4_Witness ==
    /\ ret.call = "add_node"
    /\ Len(nodes) = 2
    /\ \E n \in Range(nodes[ret.self]) :
          /\ operation[n] # <<>>
          /\ children[n] # <<>>
          /\ \E p \in Range(parents[n]) : ~Contains(nodes[ret.self], p)
                                          /\ Registered(p)

RegistriesOf(n) == {w \in Workspaces(Heap) : Contains(nodes[w], n)}

\* the i-th and j-th key of a registry differ
NoDuplicateKeys(reg) ==
    \A i \in 1..Len(reg), j \in 1..Len(reg) : reg[i] = reg[j] => i = j

SingleRegistry ==
    /\ \A n \in Allocated(Heap) : Cardinality(RegistriesOf(n)) <= 1
    /\ \A w \in Workspaces(Heap) : NoDuplicateKeys(nodes[w])

\* W2.add_node(N) for an N registered in another workspace: N, and every
\* node the call brings into W2, is then in W2's registry only and points
\* to W2.
MovesCompletely ==
    (/\ ret'.call = "add_node"
     /\ \E w1 \in Workspaces(Heap) :
            w1 # ret'.self /\ Contains(nodes[w1], ret'.arg))
    => /\ Contains(nodes'[ret'.self], ret'.arg)
       /\ \A d \in Allocated(Heap) :
            (Contains(nodes'[ret'.self], d) /\ ~Contains(nodes[ret'.self], d))
            => /\ workspace'[d] = ret'.self
               /\ \A w \in Workspaces(Heap) :
                    w # ret'.self => ~Contains(nodes'[w], d)

\* C5 (single registry): a node is in the registry of at most one workspace,
\* and add_node on a node registered elsewhere moves it and the descendants
\* it takes along out of their old registries.
C5_SingleRegistry == [](SingleRegistry) /\ [][MovesCompletely]_vars

\* add_node has just moved a node and a descendant out of workspace 1
C5_Witness ==
    /\ ret.call = "add_node"
    /\ ret.self = 2
    /\ operation[ret.arg] # <<>>
    /\ children[ret.arg] # <<>>
    /\ \A c \in Range(children[ret.arg]) : Contains(nodes[2], c)
    /\ \E p \in Range(parents[ret.arg]) : Contains(nodes[1], p)

\* the graph and the registries: everything but the tables themselves
graphVars == <<name, operation, parents, children, workspace, nodes>>

\* C7 (engine failures): if the table engine raises during a delegated call
\* on a node, the same error reaches the caller and the registries and the
\* parents/children lists are as before the call.
C7_EngineFailurePropagates ==
    [][ret'.engine # "ok" =>
          (ret'.raised = ret'.engine /\ UNCHANGED heapVars)]_vars

\* C8 (collect on an eager node): the call returns the node itself and
\* changes no registry, no parents/children list and no node.
C8_CollectEagerIsNoOp ==
    [][(ret'.call = "collect" /\ ~is_lazy(data[ret'.self])) =>
          /\ ret'.raised = "none"
          /\ ret'.value = ret'.self
          /\ UNCHANGED heapVars]_vars

\* collect() has been called on an eager node that has a child of its own
C8_Witness ==
    /\ ret.call = "collect"
    /\ ~is_lazy(data[ret.self])
    /\ ret.value = ret.self
    /\ children[ret.self] # <<>>

\* C9 (collect on a lazy node): whenever N.collect() returns for a lazy node
\* N, it returns a node that did not exist before, eager, with parents [N],
\* appended to N.children and registered in N's workspace; N stays lazy.
C9_CollectLazyCreatesChild ==
    [][(ret'.call = "collect" /\ is_lazy(data[ret'.self])
            /\ ret'.raised = "none") =>
          LET N == ret'.self
              c == ret'.value
          IN /\ c \notin Allocated(Heap)
             /\ c \in 1..Len(data')
             /\ ~is_lazy(data'[c])
             /\ parents'[c] = <<N>>
             /\ children'[c] = <<>>
             /\ children'[N] = Append(children[N], c)
             /\ workspace'[c] = workspace[N]
             /\ Contains(nodes'[workspace[N]], c)
             /\ data'[N] = data[N]
             /\ is_lazy(data'[N])]_vars

\* C10 (materialize is in place, P5): whenever N.materialize() returns for a
\* lazy node N, it returns N, N is eager, and no node, no registry entry and
\* no edge is added or changed.
C10_MaterializeInPlace ==
    [][(ret'.call = "materialize" /\ is_lazy(data[ret'.self])
            /\ ret'.raised = "none") =>
          LET N == ret'.self
          IN /\ ret'.value = N
             /\ ~is_lazy(data'[N])
             /\ Len(data') = Len(data)
             /\ \A m \in Allocated(Heap) \ {N} : data'[m] = data[m]
             /\ UNCHANGED graphVars]_vars

\* the (parent id, child id) pairs of workspace w: the children lists of
\* its registered nodes, between registered nodes
Edges(h, w) ==
    {<<p, c>> \in Range(h.nodes[w]) \X Range(h.nodes[w]) :
        Contains(h.children[p], c)}

\* the pairs recorded in the children lists of a loaded workspace
LoadedChildEdges(ws) ==
    {<<p, c>> \in Range(ws.nodes) \X Range(ws.nodes) :
        Contains(ws.children[p], c)}

\* the pairs recorded in the parents lists of a loaded workspace
LoadedParentEdges(ws) ==
    {<<p, c>> \in Range(ws.nodes) \X Range(ws.nodes) :
        Contains(ws.parents[c], p)}

\* the loaded workspace has the ids, names, operation labels, laziness
\* flags and edge pairs of the workspace that was saved
SameGraph(ws, h, w) ==
    /\ Range(ws.nodes) = Range(h.nodes[w])
    /\ \A n \in Range(ws.nodes) \cap Range(h.nodes[w]) :
          /\ ws.name[n] = h.name[n]
          /\ ws.operation[n] = h.operation[n]
          /\ is_lazy(ws.data[n]) = is_lazy(h.data[n])
    /\ LoadedChildEdges(ws) = Edges(h, w)
    /\ LoadedParentEdges(ws) = Edges(h, w)

NoPersistenceError ==
    /\ \A e \in Range(doc.nodes) : ~e[2].error
    /\ loaded.warnings = <<>>

C11_LazinessMonotone ==
    [][\A n \in Allocated(Heap) :
          ~is_lazy(data[n]) => ~is_lazy(data'[n])]_vars

\* a node that was created lazy has been materialized, has an eager child
\* of its own, and the workspace has been saved afterwards
C11_Witness ==
    /\ ret.call = "serialize"
    /\ \E n \in Allocated(Heap) :
          /\ ~is_lazy(data[n])
          /\ \E c \in Range(children[n]) :
                /\ operation[c] # <<>>
                /\ operation[c][1] = "collect("
                /\ ~is_lazy(data[c])

C13_JoinOfDocIsPlain ==
    [][(ret'.call = "join" /\ ret'.raised = "none"
            /\ (IsDoc(data[ret'.self]) \/ IsDoc(data[ret'.arg]))) =>
          ~IsDoc(data'[ret'.value])]_vars

\* C14 (join laziness): the node A.join(B) returns is lazy if and only if A
\* and B are both lazy, and the call leaves the tables of A and B as they
\* were (a lazy input is still lazy).
C14_JoinLaziness ==
    [][(ret'.call = "join" /\ ret'.raised = "none") =>
          LET A == ret'.self
              B == ret'.arg
          IN /\ is_lazy(data'[ret'.value])
                    <=> (is_lazy(data[A]) /\ is_lazy(data[B]))
             /\ data'[A] = data[A]
             /\ data'[B] = data[B]]_vars

\* a lazy node has been joined with an eager node: the node returned is
\* eager and the lazy input is still lazy
C14_Witness ==
    /\ ret.call = "join"
    /\ ret.raised = "none"
    /\ is_lazy(data[ret.self])
    /\ ~is_lazy(data[ret.arg])
    /\ ~is_lazy(data[ret.value])

\* C15 (wrap-as-child rule): every call of filter, slice, join, collect or
\* a forwarded operation on a node N that returns a new node appends exactly
\* one entry, the new node, to N.children; unless the call is a join the
\* new node has N as sole parent; the new node is registered in N's
\* workspace; after filter and slice it is lazy exactly if N is.
C15_WrapAsChild ==
    [][(ret'.call \in {"filter", "slice", "join", "collect", "forward"}
            /\ ret'.raised = "none"
            /\ ret'.value # None
            /\ ret'.value \notin Allocated(Heap)) =>
          LET N == ret'.self
              c == ret'.value
          IN /\ children'[N] = Append(children[N], c)
             /\ ret'.call # "join" => parents'[c] = <<N>>
             /\ workspace'[c] = workspace[N]
             /\ Contains(nodes'[workspace[N]], c)
             /\ ret'.call \in {"filter", "slice"} =>
                   (is_lazy(data'[c]) <=> is_lazy(data[N]))]_vars

\* C16 (intermediate handles): N.group_by(...) adds no node and changes no
\* edge and no registry; the agg(...) that returns a table adds exactly one
\* node, registered last in N's workspace, with N as its sole parent and
\* appended to N.children; an agg(...) that returns no table adds nothing.
C16_IntermediateHandle ==
    [][/\ ret'.call = "group_by" => UNCHANGED heapVars
       /\ (ret'.call = "agg" /\ ret'.value = None) => UNCHANGED heapVars
       /\ (ret'.call = "agg" /\ ret'.value # None) =>
             LET N == ret'.self
                 c == ret'.value
             IN /\ c = Len(data) + 1
                /\ Len(data') = Len(data) + 1
                /\ parents'[c] = <<N>>
                /\ children'[c] = <<>>
                /\ workspace'[c] = workspace[N]
                /\ nodes' = [nodes EXCEPT ![workspace[N]] = Append(@, c)]
                /\ children' = Append([children EXCEPT ![N] = Append(@, c)],
                                      <<>>)
                /\ \A m \in Allocated(Heap) :
                      /\ parents'[m] = parents[m]
                      /\ data'[m] = data[m]
                      /\ workspace'[m] = workspace[m]]_vars

\* group_by(...).agg(...) on a lazy node has returned a lazy node, the only
\* node besides N
C16_Witness ==
    /\ ret.call = "agg"
    /\ ret.value # None
    /\ Len(data) = 2
    /\ parents[ret.value] = <<ret.self>>
    /\ is_lazy(data[ret.value])
    /\ operation[ret.value][1] = "group_by"

\* C17 (unsupported data): constructing a Node from data that is not one
\* of the four kinds of table raises TypeError and leaves every registry,
\* the set of workspaces and every parents/children list as they were.
C17_UnsupportedDataRejected ==
    [][(ret'.call = "Node" /\ ret'.self = None) =>
          /\ ret'.raised = "TypeError"
          /\ UNCHANGED heapVars]_vars

\* a Node with unsupported data, a parent and no workspace was rejected
C17_Witness ==
    /\ ret.call = "Node"
    /\ ret.raised = "TypeError"
    /\ ret.arg # None
    /\ ret.flag
    /\ children[ret.arg] = <<>>
    /\ Len(nodes) = 1

C19_RemoveMaterializesChildren ==
    [][(ret'.call = "remove_node" /\ ret'.flag /\ ret'.bool) =>
          LET W == ret'.self
              id == ret'.arg
          IN /\ Len(data') = Len(data)
             /\ \A c \in Range(children[id]) :
                   /\ is_lazy(data[c]) => ~is_lazy(data'[c])
                   /\ Contains(nodes[W], c) => Contains(nodes'[W], c)]_vars

\* C20 (serialization isolates per-node failures): when the encoder of one
\* node of W raises during W.serialize, serialize completes, the document
\* has one entry per node of W, the entry of the failing node carries the
\* error marker, every other entry carries the node's id, type tag and
\* content, and every edge between nodes of W is in the relationships.
C20_SerializeIsolatesFailures ==
    ret.call = "serialize" =>
       LET W == ret.self
           bad == ret.arg
       IN /\ doc # NoDoc
          /\ doc.id = W
          /\ [i \in 1..Len(doc.nodes) |-> doc.nodes[i][1]] = nodes[W]
          /\ \A e \in Range(doc.nodes) :
                IF e[1] = bad
                THEN e[2].error /\ e[2].data_metadata.type = "error"
                ELSE /\ ~e[2].error
                     /\ e[2].node_metadata.id = e[1]
                     /\ e[2].data_metadata.type = DataMetadataType(data[e[1]])
                     /\ e[2].serialized_data = SerializedData(data[e[1]])
          /\ Edges(Heap, W)
                \subseteq {<<r.parent_id, r.child_id>> :
                              r \in Range(doc.relationships)}

\* a workspace of three nodes has been saved; the encoder of the first one,
\* which has a child, failed
C20_Witness ==
    /\ ret.call = "serialize"
    /\ ret.arg # None
    /\ Len(nodes[ret.self]) = 3
    /\ nodes[ret.self][1] = ret.arg
    /\ \E c \in Range(nodes[ret.self]) : Contains(children[ret.arg], c)
    /\ Len(doc.nodes) = 3
    /\ ~doc.nodes[2][2].error

\* no element occurs twice in the list
NoDuplicates(seq) == \A i, j \in 1..Len(seq) : seq[i] = seq[j] => i = j

\* the recorded (parent id, child id) pairs of the document whose two
\* endpoints are among the ids in S
RecordedEdges(d, S) ==
    {<<r.parent_id, r.child_id>> : r \in Range(d.relationships)}
        \cap (S \X S)

\* C21 (deserialization skips bad entries and loads the rest): when
\* Workspace.deserialize reads a document in which some node entries carry
\* an error marker or fail to decode, each such entry is skipped with a
\* warning recorded, every other entry becomes a registered node, and the
\* edges rebuilt are exactly the recorded (parent, child) pairs whose two
\* endpoints were both loaded, each applied once.
C21_DeserializeSkipsBadEntries ==
    ret.call = "deserialize" =>
       LET bad == {e[1] : e \in {x \in Range(doc.nodes) :
                                   x[2].error \/ x[1] = ret.arg}}
           good == {e[1] : e \in Range(doc.nodes)} \ bad
       IN /\ \A n \in bad : /\ ~Contains(loaded.nodes, n)
                             /\ Contains(loaded.warnings, n)
          /\ Range(loaded.nodes) = good
          /\ NoDuplicates(loaded.nodes)
          /\ LoadedChildEdges(loaded) = RecordedEdges(doc, good)
          /\ LoadedParentEdges(loaded) = RecordedEdges(doc, good)
          /\ \A n \in good : /\ NoDuplicates(loaded.children[n])
                              /\ NoDuplicates(loaded.parents[n])

\* the same statement without the warning for entries that carry an error
\* marker: they are skipped silently, an entry whose decoder raised is
\* skipped with a warning
DeserializeLoadsTheRest ==
    ret.call = "deserialize" =>
       LET marked == {e[1] : e \in {x \in Range(doc.nodes) : x[2].error}}
           undecodable == {e[1] : e \in {x \in Range(doc.nodes) :
                                   ~x[2].error /\ x[1] = ret.arg}}
           good == {e[1] : e \in Range(doc.nodes)} \ (marked \cup undecodable)
       IN /\ Range(loaded.warnings) = undecodable
          /\ Range(loaded.nodes) = good
          /\ NoDuplicates(loaded.nodes)
          /\ LoadedChildEdges(loaded) = RecordedEdges(doc, good)
          /\ LoadedParentEdges(loaded) = RecordedEdges(doc, good)
          /\ \A n \in good : /\ NoDuplicates(loaded.children[n])
                              /\ NoDuplicates(loaded.parents[n])

\* the nodes reachable from n via one or more parent edges
RECURSIVE ParentClosure(_)
ParentClosure(S) ==
    LET T == S \cup UNION {Range(parents[n]) : n \in S}
    IN IF T = S THEN S ELSE ParentClosure(T)

Ancestors(n) == ParentClosure(Range(parents[n]))

\* node m is in the same registries and has the same workspace pointer
\* before and after the step
StaysPut(m) ==
    /\ workspace'[m] = workspace[m]
    /\ \A w \in Workspaces(Heap) :
          Contains(nodes'[w], m) <=> Contains(nodes[w], m)

\* C22 (add_node never moves ancestors): W.add_node(N) changes the registry
\* membership and the workspace pointer only of N and of nodes reachable
\* from N via child edges; every parent or other ancestor of N stays
\* registered in its own workspace with its workspace pointer unchanged,
\* and no parents or children list of any node is modified by the call.
C22_AddNodeFrame ==
    [][ret'.call = "add_node" =>
          LET N == ret'.arg IN
          /\ \A m \in Allocated(Heap) \ ({N} \cup Reachable(N)) : StaysPut(m)
          /\ \A a \in Ancestors(N) : StaysPut(a)
          /\ parents' = parents
          /\ children' = children
          /\ Len(nodes') = Len(nodes)]_vars

\* a node derived from a parent has been added, with its own child, to a
\* workspace other than the one its parent is registered in
C22_Witness ==
    /\ ret.call = "add_node"
    /\ operation[ret.arg] # <<>>
    /\ workspace[ret.arg] = ret.self
    /\ Contains(nodes[ret.self], ret.arg)
    /\ \E p \in Range(parents[ret.arg]) :
          /\ workspace[p] # ret.self
          /\ Contains(nodes[workspace[p]], p)
          /\ Contains(children[p], ret.arg)
    /\ \E c \in Range(children[ret.arg]) : Contains(nodes[ret.self], c)

\* a second W.add_node(N) right after the first leaves the heap of the first
AddNodeTwiceIsOnce ==
    \A w \in Workspaces(Heap), n \in Allocated(Heap) :
        add_node(add_node(Heap, w, n), w, n) = add_node(Heap, w, n)

\* W.add_node(N) for a node N in W's registry returns N and changes nothing
AddNodeOfMemberIsNoOp ==
    (ret'.call = "add_node" /\ Contains(nodes[ret'.self], ret'.arg)) =>
        /\ ret'.value = ret'.arg
        /\ ret'.raised = "none"
        /\ UNCHANGED heapVars

\* C23 (add_node is idempotent): calling W.add_node(N) when N is already
\* registered in W returns N and leaves every workspace registry, every
\* workspace pointer and every parents/children list unchanged; calling
\* add_node twice in a row has the same effect as calling it once.
C23_AddNodeIdempotent ==
    [](AddNodeTwiceIsOnce) /\ [][AddNodeOfMemberIsNoOp]_vars

\* add_node has been called for a node of the workspace whose child is
\* registered elsewhere: the call found the node present and moved nothing
C23_Witness ==
    /\ ret.call = "add_node"
    /\ Contains(nodes[ret.self], ret.arg)
    /\ \E c \in Range(children[ret.arg]) :
          /\ ~Contains(nodes[ret.self], c)
          /\ Registered(c)

\* x comes before y in the list
Before(seq, x, y) ==
    \E i, j \in 1..Len(seq) : i < j /\ seq[i] = x /\ seq[j] = y

C25_ParentsBeforeChildren ==
    ret.call = "get_topological_order" =>
       \A e \in Edges(Heap, ret.self) : Before(ret.list, e[1], e[2])

\* there is a cycle of child edges through node n
OnCycle(n) == n \in Reachable(n)

\* the body of traverse() has been entered at most once for each node, and
\* a call for an id that is not in the registry has returned the empty list
TraverseSafe ==
    /\ NoDuplicates(trav.entered)
    /\ (trav.call # "none" /\ ~Contains(nodes[trav.self], trav.arg))
          => (trav.done /\ trav.out = <<>> /\ trav.entered = <<>>)

\* C26 (traversals terminate and tolerate unknown ids):
\* Workspace.get_ancestors(id) and Workspace.get_descendants(id) return
\* after visiting each node at most once even when the parent/child lists
\* contain a cycle, and for an id not in the registry they return an empty
\* list without raising.
C26_TraversalTerminates ==
    [](TraverseSafe) /\ ((trav.call # "none") ~> trav.done)

\* a traversal that started on a cycle of two or more nodes has returned
C26_Witness ==
    /\ trav.done
    /\ Contains(nodes[trav.self], trav.arg)
    /\ OnCycle(trav.arg)
    /\ ~Contains(children[trav.arg], trav.arg)
    /\ Len(trav.entered) >= 2
    /\ Contains(trav.out, trav.arg)

\* every pair of nodes is linked by child edges in one direction at most
Acyclic == \A n \in Allocated(Heap) : ~OnCycle(n)

\* C27 (reachability results are exact sets): for every registered node N
\* in an acyclic lineage graph, including graphs where a node is reachable
\* by more than one path (a join of two nodes derived from the same root),
\* Workspace.get_descendants(N.id) contains each node reachable from N via
\* child edges exactly once and nothing else, and
\* Workspace.get_ancestors(N.id) contains each node reachable via parent
\* edges exactly once and nothing else.
C27_ReachabilityExact ==
    /\ (ret.call = "get_descendants" /\ Contains(nodes[ret.self], ret.arg)
          /\ Acyclic)
         => (Range(ret.list) = Reachable(ret.arg) /\ NoDuplicates(ret.list))
    /\ (ret.call = "get_ancestors" /\ Contains(nodes[ret.self], ret.arg)
          /\ Acyclic)
         => (Range(ret.list) = Ancestors(ret.arg) /\ NoDuplicates(ret.list))

\* the same statement about the set of nodes listed, duplicates aside
ReachabilityAsSets ==
    /\ (ret.call = "get_descendants" /\ Contains(nodes[ret.self], ret.arg))
         => Range(ret.list) = Reachable(ret.arg)
    /\ (ret.call = "get_ancestors" /\ Contains(nodes[ret.self], ret.arg))
         => Range(ret.list) = Ancestors(ret.arg)

\* every edge of the view has both ends among the nodes of the view
NoDanglingEdges(g) ==
    \A e \in Range(g.edges) :
        Contains(g.nodes, e[1]) /\ Contains(g.nodes, e[2])

\* C28 (derived graph views have no dangling edges): in every workspace
\* state reachable by node construction, delegated operations, join,
\* add_node and remove_node, every edge emitted by Workspace.graph(),
\* Workspace.to_react_flow_json() and
\* DocWorkspaceAPIUtils.workspace_to_react_flow() has both its source and
\* its target among the nodes emitted by the same call, and the three views
\* emit the same set of (source, target) pairs.
C28_ViewsHaveNoDanglingEdges ==
    ret.call \in {"graph", "to_react_flow_json", "workspace_to_react_flow"} =>
       /\ NoDanglingEdges([nodes |-> ret.list, edges |-> ret.edges])
       /\ Range(ret.edges) = Range(graph(Heap, ret.self).edges)
       /\ Range(ret.edges) = Range(to_react_flow_json(Heap, ret.self).edges)
       /\ Range(ret.edges)
             = Range(workspace_to_react_flow(Heap, ret.self).edges)

\* the current-workspace id of each user is unset or in the user's session
CurrentInSession ==
    \A u \in Users :
        user_current[u] = None \/ user_current[u] \in user_sessions[u]

\* set_current_workspace with an id that is not in the session returns
\* False and leaves the pointer as it was
SetCurrentOfAbsentRefused ==
    (ret'.call = "set_current_workspace" /\ ret'.arg # None
        /\ ret'.arg \notin user_sessions[ret'.self])
      => (~ret'.bool /\ UNCHANGED managerVars)

\* C29 (current-workspace pointer validity): after any sequence of
\* WorkspaceManager.create_workspace, set_current_workspace, get_workspace,
\* list_user_workspaces, delete_workspace and unload_workspace calls, each
\* user's current-workspace id is either unset or the id of a workspace
\* present in that same user's in-memory session; set_current_workspace
\* with an id not in the session returns False and leaves the pointer
\* unchanged.
C29_CurrentPointerValid ==
    [](CurrentInSession) /\ [][SetCurrentOfAbsentRefused]_vars

\* the workspace a user had selected has been deleted or unloaded while
\* another one stays in the session, and the pointer is unset
C29_Witness ==
    /\ ret.call \in {"delete_workspace", "unload_workspace"}
    /\ ret.arg \notin user_sessions[ret.self]
    /\ user_current[ret.self] = None
    /\ user_sessions[ret.self] # {}
    /\ \E u \in Users \ {ret.self} : user_current[u] # None

\* C30 (unload_workspace result and effect):
\* WorkspaceManager.unload_workspace(user, id) returns True if the workspace
\* was in the user's in-memory session or a persisted file for it exists,
\* and returns False only if neither exists; after it returns, the
\* workspace is not in the user's in-memory session (even if saving it
\* failed), and a later get_workspace(user, id) obtains it by loading the
\* persisted file.
C30_UnloadResultAndEffect ==
    [][ret'.call = "unload_workspace" =>
          LET u == ret'.self
              id == ret'.arg
              later == get_workspace(Manager', u, id, TRUE)
          IN /\ ret'.bool <=> (id \in user_sessions[u]
                                 \/ id \in workspace_files[u])
             /\ id \notin user_sessions'[u]
             /\ ret'.bool => (later.bool /\ later.loaded)]_vars

\* the result and the removal from the session alone
UnloadResultAndRemoval ==
    [][ret'.call = "unload_workspace" =>
          /\ ret'.bool <=> (ret'.arg \in user_sessions[ret'.self]
                              \/ ret'.arg \in workspace_files[ret'.self])
          /\ ret'.arg \notin user_sessions'[ret'.self]]_vars

====
